---- MODULE Spec2Model ----
(***************************************************************************)
(* A model of tgbf's plugin base class (src/tgbf/plugin.py, TGBFPlugin):   *)
(* the storage gateway (execute_sql, execute_global_sql, table_exists,     *)
(* global_table_exists), the admin notification (notify) and the handler   *)
(* decorators (private, owner, dependency).                                *)
(*                                                                         *)
(* Every method is one action.  What a call did is kept in `call`: how it  *)
(* ended (returned / raised), its value, and the ordered list of the       *)
(* outside effects it attempted (file system, sqlite3, logging, Telegram). *)
(* Collaborators that can fail (os.makedirs, sqlite3, open(), send_message,*)
(* reply_text) fail or succeed as the environment `env` of the call says.  *)
(***************************************************************************)
EXTENDS Integers, Sequences, FiniteSets, TLC

VARIABLES
    global_config,  \* self._global_config: the global configuration document
    config,         \* self._config: this plugin's configuration document
    plugins,        \* self.bot.plugins: the names of the active plugins
    fs,             \* the file system: directories, database files and their tables
    bot,            \* self.bot: its job queue, its dispatcher and its web application
    handlers,       \* self._handlers: the handlers this plugin has added
    endpoints,      \* self._endpoints: the endpoints this plugin has added, by path
    call            \* the last finished call of a method of the plugin

vars == <<global_config, config, plugins, fs, bot, handlers, endpoints, call>>

-----------------------------------------------------------------------------
(* Bounds of the model.                                                    *)

\* admin / user ids are 1..MaxId
MaxId == 2
\* the longest admin list of a configuration document
MaxAdmins == 2
\* the most steps of one call that the environment makes fail
MaxFailures == 3
\* the longest dependencies list of a plugin's configuration document
MaxDependencies == 2

-----------------------------------------------------------------------------
(* Python values, as far as the code distinguishes them.                   *)

PyNone == [t |-> "none"]
PyBool(b) == [t |-> "bool", b |-> b]
PyInt(i) == [t |-> "int", i |-> i]
PyStr(s) == [t |-> "str", s |-> s]
PyList(l) == [t |-> "list", l |-> l]

\* bool(v): what `if v`, `not v` and `v and ...` test
Truthy(v) ==
    CASE v.t = "none" -> FALSE
      [] v.t = "bool" -> v.b
      [] v.t = "int" -> v.i # 0
      [] v.t = "str" -> v.s # ""
      [] v.t = "list" -> Len(v.l) > 0

\* v == False (Python: False and the number 0 both compare equal to False)
EqFalse(v) ==
    \/ v.t = "bool" /\ ~v.b
    \/ v.t = "int" /\ v.i = 0

\* isinstance(v, list)
IsList(v) == v.t = "list"

\* x in v, for a list v
InList(x, v) == \E i \in 1..Len(v.l) : v.l[i] = x

-----------------------------------------------------------------------------
(* Configuration documents: ConfigManager.get of a key path.  A document is a     *)
(* function from the keys that are set to their values (a section is a     *)
(* document again); a key that is not set reads as None.                   *)

ConfigGet(doc, key) == IF key \in DOMAIN doc THEN doc[key] ELSE PyNone

ConfigGet2(doc, section, key) ==
    IF section \in DOMAIN doc /\ key \in DOMAIN doc[section]
    THEN doc[section][key]
    ELSE PyNone

\* the documents that set some of the keys of `dom`, each to a value of dom[key]
Documents(dom) ==
    UNION { { d \in [K -> UNION { dom[k] : k \in K }] : \A k \in K : d[k] \in dom[k] }
            : K \in SUBSET DOMAIN dom }

-----------------------------------------------------------------------------
(* One finished call, and the effects it attempted, in order.  An event is  *)
(* a step k with s = "ok" or the text of the error it failed with (for a   *)
(* log entry or a message: its text) and a number n (a timeout, an id).    *)

Ev(k, s, n) == [k |-> k, s |-> s, n |-> n]

Returned(value, evs) == [outcome |-> "returned", value |-> value, exc |-> "", evs |-> evs]
Raised(exc, evs) == [outcome |-> "raised", value |-> PyNone, exc |-> exc, evs |-> evs]

\* the events of kind k among evs
RECURSIVE Only(_, _)
Only(evs, k) ==
    IF evs = <<>> THEN <<>>
    ELSE (IF Head(evs).k = k THEN <<Head(evs)>> ELSE <<>>) \o Only(Tail(evs), k)

Count(evs, k) == Len(Only(evs, k))

\* logging.error(...)
Log(text) == Ev("log", text, 0)

-----------------------------------------------------------------------------
(* notify: plugin.py 454-466.                                              *)

\* the body of `for admin in ids:` over the list ids; bad: the admins that
\* send_message cannot reach
RECURSIVE notify_loop_stop(_, _, _)
notify_loop_stop(ids, some_input, bad) ==
    IF ids = <<>> THEN <<>>
    ELSE IF Head(ids) \in bad
         THEN <<Ev("send_message", some_input, Head(ids)),
                Log("Not possible to notify admin id")>>
         ELSE <<Ev("send_message", some_input, Head(ids))>>
              \o notify_loop_stop(Tail(ids), some_input, bad)

RECURSIVE notify_loop(_, _, _)
notify_loop(ids, some_input, bad) ==
    IF ids = <<>> THEN <<>>
    ELSE <<Ev("send_message", some_input, Head(ids))>>
         \o (IF Head(ids) \in bad
             THEN <<Log("Not possible to notify admin id")>>
             ELSE <<>>)
         \o notify_loop(Tail(ids), some_input, bad)

notify(gc, some_input, bad) ==
    IF Truthy(ConfigGet2(gc, "admin", "notify_on_error"))
    THEN LET ids == ConfigGet2(gc, "admin", "ids") IN
         IF IsList(ids)
         THEN Returned(PyStr(some_input), notify_loop(ids.l, some_input, bad))
         ELSE \* `for admin in None` (or in a number): not iterable
              Raised("TypeError", <<>>)
    ELSE Returned(PyStr(some_input), <<>>)

-----------------------------------------------------------------------------
(* The file system and sqlite3, as far as the storage gateway uses them.   *)
(* A path is the sequence of the components os.path.join puts together.    *)
(* fs.dirs: the directories that exist; fs.tabs: the database files that   *)
(* exist, each with the tables in it.                                      *)

\* this plugin: type(self).__name__.lower()
name == "usage"

\* the tables the statements of the model are about
TableNames == {"usage"}

\* the statements given to execute_sql: create_<table>.sql and a select
Statements == [verb : {"create", "select"}, table : TableNames]

\* the steps of a call that the environment can make fail
Steps == {"makedirs", "connect", "cursor", "execute", "commit", "fetchall",
          "cur_close", "con_close", "open", "fetchone"}

\* os.path.dirname
dirname(path) == SubSeq(path, 1, Len(path) - 1)

\* Path(db_path).is_file()
is_file(fsv, path) == path \in DOMAIN fsv.tabs

\* os.makedirs(directory, exist_ok=True), when it does not fail
makedirs(fsv, directory) == [fsv EXCEPT !.dirs = @ \cup {directory}]

\* sqlite3.connect(db_path): it cannot open a file in a directory that is missing
connect_ok(fsv, db_path, env) ==
    /\ "connect" \notin env.fail
    /\ dirname(db_path) \in fsv.dirs

\* sqlite3.connect creates the database file when there is none
connect(fsv, db_path) ==
    IF is_file(fsv, db_path) THEN fsv
    ELSE [fsv EXCEPT !.tabs = (db_path :> {}) @@ @]

\* cur.execute(sql, args) on the tables of a database: the error ("" when none)
\* and the tables afterwards
sqlite_execute(tables, sql, env) ==
    IF "execute" \in env.fail THEN [err |-> "execute failed", tables |-> tables]
    ELSE IF sql.verb = "create"
    THEN IF sql.table \in tables
         THEN [err |-> "table already exists", tables |-> tables]
         ELSE [err |-> "", tables |-> tables \cup {sql.table}]
    ELSE IF sql.table \in tables
         THEN [err |-> "", tables |-> tables]
         ELSE [err |-> "no such table", tables |-> tables]

\* get_dat_path(plugin=None): plugin.py 411-415
get_dat_path(plugin) ==
    <<"DIR_SRC", "DIR_PLG", IF plugin = "" THEN name ELSE plugin, "DIR_DAT">>

\* the connections a call opened and did not close
Unclosed(evs) ==
    Len(SelectSeq(Only(evs, "connect"), LAMBDA e : e.s = "ok"))
    - Len(SelectSeq(Only(evs, "con.close"), LAMBDA e : e.s = "ok"))

\* the cursors a call opened and did not close
UnclosedCursors(evs) ==
    Len(SelectSeq(Only(evs, "cursor"), LAMBDA e : e.s = "ok"))
    - Len(SelectSeq(Only(evs, "cur.close"), LAMBDA e : e.s = "ok"))

-----------------------------------------------------------------------------
(* _get_database_content: plugin.py 304-350.                               *)

\* line 310: `if not self.global_config.get("database", "use_db")`
db_disabled_unless_false(gc) == EqFalse(ConfigGet2(gc, "database", "use_db"))

db_disabled(gc) == ~Truthy(ConfigGet2(gc, "database", "use_db"))

\* lines 315-316
db_timeout(gc) ==
    LET timeout == ConfigGet2(gc, "database", "timeout") IN
    IF Truthy(timeout) THEN timeout.i ELSE 5

\* lines 332-338: the body of the second try; err is "" when it got through
try_body(fsv, db_path, sql, timeout, env) ==
    LET c == Ev("connect", "ok", timeout)
        cu == Ev("cursor", "ok", 0)
        fs1 == connect(fsv, db_path)
    IN
    IF ~connect_ok(fsv, db_path, env)
    THEN [err |-> "unable to open database file", rows |-> <<>>, fs |-> fsv,
          con |-> FALSE, cur |-> FALSE, evs |-> <<Ev("connect", "unable to open database file", timeout)>>]
    ELSE IF "cursor" \in env.fail
    THEN [err |-> "cursor failed", rows |-> <<>>, fs |-> fs1,
          con |-> TRUE, cur |-> FALSE, evs |-> <<c, Ev("cursor", "cursor failed", 0)>>]
    ELSE
    LET x == sqlite_execute(fs1.tabs[db_path], sql, env)
        fs2 == [fs1 EXCEPT !.tabs[db_path] = x.tables]
    IN
    IF x.err # ""
    THEN [err |-> x.err, rows |-> <<>>, fs |-> fs1,
          con |-> TRUE, cur |-> TRUE, evs |-> <<c, cu, Ev("execute", x.err, 0)>>]
    ELSE IF "commit" \in env.fail
    THEN [err |-> "commit failed", rows |-> <<>>, fs |-> fs2, con |-> TRUE, cur |-> TRUE,
          evs |-> <<c, cu, Ev("execute", "ok", 0), Ev("commit", "commit failed", 0)>>]
    ELSE IF "fetchall" \in env.fail
    THEN [err |-> "fetchall failed", rows |-> <<>>, fs |-> fs2, con |-> TRUE, cur |-> TRUE,
          evs |-> <<c, cu, Ev("execute", "ok", 0), Ev("commit", "ok", 0),
                    Ev("fetchall", "fetchall failed", 0)>>]
    ELSE [err |-> "", rows |-> <<>>, fs |-> fs2, con |-> TRUE, cur |-> TRUE,
          evs |-> <<c, cu, Ev("execute", "ok", 0), Ev("commit", "ok", 0),
                    Ev("fetchall", "ok", 0)>>]

\* a finally block that closes the connection only together with the cursor
finally_block_nested(con, cur, env) ==
    IF cur /\ "cur_close" \in env.fail
    THEN [exc |-> "ProgrammingError", evs |-> <<Ev("cur.close", "ProgrammingError", 0)>>]
    ELSE IF ~cur THEN [exc |-> "", evs |-> <<>>]
    ELSE IF con /\ "con_close" \in env.fail
    THEN [exc |-> "ProgrammingError",
          evs |-> <<Ev("cur.close", "ok", 0), Ev("con.close", "ProgrammingError", 0)>>]
    ELSE [exc |-> "", evs |-> <<Ev("cur.close", "ok", 0), Ev("con.close", "ok", 0)>>]

\* lines 344-348: the closes of the finally block; exc is "" when none raised
finally_block(con, cur, env) ==
    LET cc == IF cur THEN <<Ev("cur.close", "ok", 0)>> ELSE <<>> IN
    IF cur /\ "cur_close" \in env.fail
    THEN [exc |-> "ProgrammingError", evs |-> <<Ev("cur.close", "ProgrammingError", 0)>>]
    ELSE IF con /\ "con_close" \in env.fail
    THEN [exc |-> "ProgrammingError", evs |-> cc \o <<Ev("con.close", "ProgrammingError", 0)>>]
    ELSE [exc |-> "", evs |-> cc \o (IF con THEN <<Ev("con.close", "ok", 0)>> ELSE <<>>)]

\* the result of a call together with the file system it leaves
WithFs(r, fsv) == [r |-> r, fs |-> fsv]

Failure(text) == [success |-> PyBool(FALSE), data |-> PyStr(text)]

_get_database_content(gc, fsv, db_path, sql, env) ==
    IF db_disabled(gc)
    THEN WithFs(Returned(Failure("Database disabled"), <<>>), fsv)
    ELSE
    LET res0 == [success |-> PyNone, data |-> PyNone]
        \* lines 318-326; the handler does not return, and whatever it put in
        \* res (res1) is overwritten by lines 337-338 or 340-341
        mk_failed == "makedirs" \in env.fail
        n1 == notify(gc, "makedirs failed", env.bad)
        res1 == IF mk_failed THEN Failure("makedirs failed") ELSE res0
        fs1 == IF mk_failed THEN fsv ELSE makedirs(fsv, dirname(db_path))
        evs1 == IF mk_failed
                THEN <<Ev("makedirs", "makedirs failed", 0), Log("makedirs failed"),
                       Ev("notify", "makedirs failed", 0)>> \o n1.evs
                ELSE <<Ev("makedirs", "ok", 0)>>
    IN
    IF mk_failed /\ n1.outcome = "raised"
    THEN \* the first try has no finally: what notify raises leaves the method
         WithFs(Raised(n1.exc, evs1), fs1)
    ELSE
    LET \* lines 328-343
        t == try_body(fs1, db_path, sql, db_timeout(gc), env)
        n2 == notify(gc, t.err, env.bad)
        res2 == IF t.err = ""
                THEN [success |-> PyBool(TRUE), data |-> PyList(t.rows)]
                ELSE Failure(t.err)
        evs2 == IF t.err = "" THEN <<>>
                ELSE <<Log(t.err), Ev("notify", t.err, 0)>> \o n2.evs
        \* lines 344-350: `return res` in the finally drops what notify raised
        f == finally_block(t.con, t.cur, env)
        evs == evs1 \o t.evs \o evs2 \o f.evs
    IN
    IF f.exc # ""
    THEN WithFs(Raised(f.exc, evs), t.fs)
    ELSE WithFs(Returned(res2, evs), t.fs)

\* execute_global_sql: plugin.py 246-264
execute_global_sql(gc, fsv, sql, env) ==
    _get_database_content(gc, fsv, <<"cwd", "DIR_DAT", "FILE_DAT">>, sql, env)

\* execute_sql with plugin="" and db_name="": plugin.py 266-302
execute_sql(gc, fsv, sql, env) ==
    _get_database_content(gc, fsv, get_dat_path("") \o <<name \o ".db">>, sql, env)

-----------------------------------------------------------------------------
(* _database_table_exists: plugin.py 377-397, with _get_resource_content   *)
(* (183-192) reading the probe script table_exists.sql.                    *)

\* _get_resource_content: the text read, or None after logging and notifying
_get_resource_content(gc, filename, env) ==
    IF "open" \in env.fail
    THEN LET n == notify(gc, "No such file or directory", env.bad)
             evs == <<Ev("open", "No such file or directory", 0), Log("No such file or directory"),
                      Ev("notify", "No such file or directory", 0)>> \o n.evs
         IN IF n.outcome = "raised"
            THEN Raised(n.exc, evs)
            ELSE Returned(PyNone, evs)
    ELSE Returned(PyStr(filename), <<Ev("open", "ok", 0)>>)

\* lines 389-394: the probe; err is "" when the catalog was read
probe(tables, statement, table_name, env) ==
    IF statement = PyNone
    THEN [err |-> "execute() argument 1 must be str, not None", found |-> FALSE,
          evs |-> <<Ev("execute", "execute() argument 1 must be str, not None", 0)>>]
    ELSE IF "execute" \in env.fail
    THEN [err |-> "execute failed", found |-> FALSE,
          evs |-> <<Ev("execute", "execute failed", 0)>>]
    ELSE IF "fetchone" \in env.fail
    THEN [err |-> "fetchone failed", found |-> FALSE,
          evs |-> <<Ev("execute", "ok", 0), Ev("fetchone", "fetchone failed", 0)>>]
    ELSE [err |-> "", found |-> table_name \in tables,
          evs |-> <<Ev("execute", "ok", 0), Ev("fetchone", "ok", 0)>>]

_database_table_exists(gc, fsv, db_path, table_name, env) ==
    IF ~is_file(fsv, db_path) THEN Returned(PyBool(FALSE), <<>>)
    ELSE IF ~connect_ok(fsv, db_path, env)
    THEN \* line 383 is outside the try
         Raised("OperationalError", <<Ev("connect", "unable to open database file", 0)>>)
    ELSE IF "cursor" \in env.fail
    THEN Raised("ProgrammingError", <<Ev("connect", "ok", 0), Ev("cursor", "cursor failed", 0)>>)
    ELSE
    LET evs0 == <<Ev("connect", "ok", 0), Ev("cursor", "ok", 0)>>
        statement == _get_resource_content(gc, "table_exists.sql", env)
    IN
    IF statement.outcome = "raised"
    THEN Raised(statement.exc, evs0 \o statement.evs)
    ELSE
    LET p == probe(fsv.tabs[db_path], statement.value, table_name, env)
        n == notify(gc, p.err, env.bad)
        evs1 == evs0 \o statement.evs \o p.evs
                \o (IF p.err = "" THEN <<>>
                    ELSE <<Log(p.err), Ev("notify", p.err, 0)>> \o n.evs)
    IN
    IF p.err # "" /\ n.outcome = "raised"
    THEN Raised(n.exc, evs1)
    ELSE IF "con_close" \in env.fail
    THEN Raised("ProgrammingError", evs1 \o <<Ev("con.close", "ProgrammingError", 0)>>)
    ELSE Returned(PyBool(p.found), evs1 \o <<Ev("con.close", "ok", 0)>>)

\* global_table_exists: plugin.py 352-356
global_table_exists(gc, fsv, table_name, env) ==
    _database_table_exists(gc, fsv, <<"cwd", "DIR_DAT", "FILE_DAT">>, table_name, env)

\* table_exists with plugin=None and db_name=None: plugin.py 358-375
table_exists(gc, fsv, table_name, env) ==
    _database_table_exists(gc, fsv, get_dat_path("") \o <<name \o ".db">>, table_name, env)

-----------------------------------------------------------------------------
(* The state machine of the storage gateway and the notification channel.  *)

\* the admin ids a document can list
Ids == 1..MaxId

\* the lists of at most n admin ids
RECURSIVE ListsUpTo(_)
ListsUpTo(n) ==
    IF n = 0 THEN {<<>>}
    ELSE LET shorter == ListsUpTo(n - 1) IN
         shorter \cup { Append(l, i) : l \in { m \in shorter : Len(m) = n - 1 }, i \in Ids }

\* the ids of a list
Range(l) == { l[i] : i \in 1..Len(l) }

\* the global configuration documents (config.json) with the admin lists `lists`
GlobalConfigs(lists) ==
    { [admin |-> a, database |-> d] :
        a \in Documents([notify_on_error |-> {PyBool(TRUE), PyBool(FALSE)},
                         ids |-> { PyList(l) : l \in lists }]),
        d \in Documents([use_db |-> {PyBool(TRUE), PyBool(FALSE)},
                         timeout |-> {PyInt(10)}]) }

\* what the environment of one call decides: the steps that fail when they are
\* attempted and the admins that send_message cannot reach
Envs(steps, gc) ==
    LET ids == ConfigGet2(gc, "admin", "ids") IN
    [fail : { F \in SUBSET steps : Cardinality(F) <= MaxFailures },
     bad : SUBSET (IF IsList(ids) THEN Range(ids.l) ELSE {})]

ExecuteSteps == {"makedirs", "connect", "cursor", "execute", "commit", "fetchall",
                 "cur_close", "con_close"}
ProbeSteps == {"connect", "cursor", "open", "execute", "fetchone", "con_close"}

\* a bot with no job scheduled, no handler dispatched and no URL rule
NoBot == [job_queue |-> <<>>, dispatcher |-> <<>>, url_rules |-> <<>>]

NoCall == [op |-> "none", args |-> "", outcome |-> "none", value |-> PyNone, exc |-> "",
           evs |-> <<>>, wrote |-> FALSE]

Finished(op, args, r, wrote) ==
    [op |-> op, args |-> args, outcome |-> r.outcome, value |-> r.value, exc |-> r.exc, evs |-> r.evs,
     wrote |-> wrote]

\* the caller has the result of the last call and goes on
Return ==
    /\ call.op # "none"
    /\ call' = NoCall
    /\ UNCHANGED <<global_config, config, plugins, fs, bot, handlers, endpoints>>

Init ==
    /\ global_config \in GlobalConfigs({<<>>, <<1>>})
    /\ config = << >>
    /\ plugins = {name}
    /\ fs = [dirs |-> {}, tabs |-> << >>]
    /\ bot = NoBot
    /\ handlers = <<>>
    /\ endpoints = << >>
    /\ call = NoCall

ExecuteSql ==
    /\ call.op = "none"
    /\ \E sql \in Statements, env \in Envs(ExecuteSteps, global_config) :
        LET x == execute_sql(global_config, fs, sql, env) IN
        /\ fs' = x.fs
        /\ call' = Finished("execute_sql", sql, x.r, x.fs # fs)
    /\ UNCHANGED <<global_config, config, plugins, bot, handlers, endpoints>>

ExecuteGlobalSql ==
    /\ call.op = "none"
    /\ \E sql \in Statements, env \in Envs(ExecuteSteps, global_config) :
        LET x == execute_global_sql(global_config, fs, sql, env) IN
        /\ fs' = x.fs
        /\ call' = Finished("execute_global_sql", sql, x.r, x.fs # fs)
    /\ UNCHANGED <<global_config, config, plugins, bot, handlers, endpoints>>

TableExists ==
    /\ call.op = "none"
    /\ \E t \in TableNames, env \in Envs(ProbeSteps, global_config) :
        call' = Finished("table_exists", t, table_exists(global_config, fs, t, env), FALSE)
    /\ UNCHANGED <<global_config, config, plugins, fs, bot, handlers, endpoints>>

GlobalTableExists ==
    /\ call.op = "none"
    /\ \E t \in TableNames, env \in Envs(ProbeSteps, global_config) :
        call' = Finished("global_table_exists", t,
                         global_table_exists(global_config, fs, t, env), FALSE)
    /\ UNCHANGED <<global_config, config, plugins, fs, bot, handlers, endpoints>>

\* the payloads given to notify
Payloads == {"error", "Feedback"}

Notify ==
    /\ call.op = "none"
    /\ \E some_input \in Payloads, env \in Envs({}, global_config) :
        call' = [Finished("notify", some_input, notify(global_config, some_input, env.bad), FALSE)
                 EXCEPT !.evs = <<Ev("notify", some_input, 0)>> \o @]
    /\ UNCHANGED <<global_config, config, plugins, fs, bot, handlers, endpoints>>

Next ==
    \/ ExecuteSql
    \/ ExecuteGlobalSql
    \/ TableExists
    \/ GlobalTableExists
    \/ Notify
    \/ Return

Spec == Init /\ [][Next]_vars

\* the notification channel alone, over every admin list of the bounds
NotifyInit ==
    /\ global_config \in GlobalConfigs(ListsUpTo(MaxAdmins))
    /\ config = << >>
    /\ plugins = {name}
    /\ fs = [dirs |-> {}, tabs |-> << >>]
    /\ bot = NoBot
    /\ handlers = <<>>
    /\ endpoints = << >>
    /\ call = NoCall

NotifyNext ==
    \/ Notify
    \/ Return

NotifySpec == NotifyInit /\ [][NotifyNext]_vars

-----------------------------------------------------------------------------
(* The claims about the storage gateway and the notification channel.      *)

ExecuteOps == {"execute_sql", "execute_global_sql"}
ProbeOps == {"table_exists", "global_table_exists"}

use_db == ConfigGet2(global_config, "database", "use_db")
notify_on_error == ConfigGet2(global_config, "admin", "notify_on_error")
admin_ids == ConfigGet2(global_config, "admin", "ids")

\* the steps of the last call that failed, among the kinds ks
FailedSteps(ks) ==
    { i \in 1..Len(call.evs) : call.evs[i].k \in ks /\ call.evs[i].s # "ok" }

HasEvent(k, text) == \E i \in 1..Len(call.evs) : call.evs[i].k = k /\ call.evs[i].s = text

\* C1: with database.use_db absent or false, execute_sql and execute_global_sql
\* return exactly {success: False, data: "Database disabled"} for every
\* statement and target, create no directory, open no connection and leave
\* the file system as it was.
C1_DisabledReturnsDisabled ==
    (call.op \in ExecuteOps /\ use_db \in {PyNone, PyBool(FALSE)})
    => /\ call.outcome = "returned"
       /\ call.value = Failure("Database disabled")
       /\ Count(call.evs, "makedirs") = 0
       /\ Count(call.evs, "connect") = 0
       /\ ~call.wrote

C1_Witness ==
    /\ call.op = "execute_global_sql"
    /\ use_db = PyNone
    /\ call.args.verb = "create"
    /\ call.value = Failure("Database disabled")

\* C2: with storage enabled, every failure of makedirs, connect, execute,
\* commit or fetchall during an execute is logged, handed to notify, and the
\* call returns {success: False, data: <the text of a failed step's error>}
\* (stated for the calls in which no close fails: the claim is not about those).
C2_FailureLoggedNotifiedReturned ==
    (call.op \in ExecuteOps /\ FailedSteps({"cur.close", "con.close"}) = {})
    => \A i \in FailedSteps({"makedirs", "connect", "execute", "commit", "fetchall"}) :
        /\ HasEvent("log", call.evs[i].s)
        /\ HasEvent("notify", call.evs[i].s)
        /\ call.outcome = "returned"
        /\ call.value.success = PyBool(FALSE)
        /\ \E j \in FailedSteps({"makedirs", "connect", "execute", "commit", "fetchall"}) :
              call.value.data = PyStr(call.evs[j].s)

\* C3: execute never raises, whatever steps fail and whatever notify does,
\* and the success field of its result is a boolean.
C3_ExecuteNeverRaises ==
    call.op \in ExecuteOps
    => /\ call.outcome = "returned"
       /\ call.value.success \in {PyBool(TRUE), PyBool(FALSE)}

\* C4: an execute call in which no close itself failed (the success path and
\* the failures of cursor creation, execute, commit and fetchall among them)
\* has closed every connection and every cursor it opened when it ends.
C4_ConnectionsClosed ==
    (call.op \in ExecuteOps /\ FailedSteps({"cur.close", "con.close"}) = {})
    => /\ Unclosed(call.evs) = 0
       /\ UnclosedCursors(call.evs) = 0

C4_Witness ==
    /\ call.op \in ExecuteOps
    /\ call.outcome = "returned"
    /\ FailedSteps({"cursor"}) # {}
    /\ HasEvent("connect", "ok")
    /\ HasEvent("con.close", "ok")

\* the database file a probe looks at
ProbePath(op) ==
    IF op = "global_table_exists" THEN <<"cwd", "DIR_DAT", "FILE_DAT">>
    ELSE get_dat_path("") \o <<name \o ".db">>

\* C5: table_exists and global_table_exists never raise; without the file
\* they return False with no connection, log entry or notification; a probe
\* that fails anywhere (connect, reading table_exists.sql, running it) is
\* logged, notified and answered False; True is returned only when the
\* table is in the catalog.
C5_TableExistsNeverRaises ==
    call.op \in ProbeOps
    => /\ call.outcome = "returned"
       /\ ~is_file(fs, ProbePath(call.op))
            => call.value = PyBool(FALSE) /\ call.evs = <<>>
       /\ FailedSteps({"connect", "cursor", "open", "execute", "fetchone"}) # {}
            => /\ call.value = PyBool(FALSE)
               /\ Count(call.evs, "log") > 0
               /\ Count(call.evs, "notify") > 0
       /\ call.value = PyBool(TRUE)
            => /\ is_file(fs, ProbePath(call.op))
               /\ call.args \in fs.tabs[ProbePath(call.op)]

\* C6: notify returns its payload unchanged, for every value of
\* admin.notify_on_error, every admin.ids (a list, an empty list, absent) and
\* every outcome of the sends.
C6_NotifyReturnsPayload ==
    call.op = "notify"
    => /\ call.outcome = "returned"
       /\ call.value = PyStr(call.args)

\* the admins the last call tried to send a message to, in order
Sends == [i \in 1..Count(call.evs, "send_message") |-> Only(call.evs, "send_message")[i].n]

\* C7: with admin.notify_on_error set, notify attempts one send to every
\* admin of admin.ids, in list order, also after a send that failed; with
\* the flag not set it attempts none.
C7_OneSendPerAdminInOrder ==
    call.op = "notify"
    => Sends = IF Truthy(notify_on_error) /\ IsList(admin_ids) THEN admin_ids.l ELSE <<>>

C7_Witness ==
    /\ call.op = "notify"
    /\ Truthy(notify_on_error)
    /\ IsList(admin_ids)
    /\ Len(admin_ids.l) = 2
    /\ \E i \in 1..(Len(call.evs) - 1) :
          call.evs[i].k = "log" /\ call.evs[i + 1].k = "send_message"

-----------------------------------------------------------------------------
(* The handler decorators: plugin.py 468-553.  An update is the chat it    *)
(* comes from, the user who sent it and whether a reply to it can be       *)
(* delivered.  A decorated handler is given the call of the function it    *)
(* wraps (`inner`) and either makes that call or does not.                 *)

\* telegram.Chat.PRIVATE and the other chat types
Chat_PRIVATE == "private"
ChatTypes == {"private", "group", "supergroup", "channel"}

Updates == [chat_type : ChatTypes, user_id : Ids, reply_ok : BOOLEAN]

\* func(self, update, context): the handler body, run on the update given
handler(upd) == Returned(PyNone, <<Ev("handler", upd.chat_type, upd.user_id)>>)

\* update.message.reply_text(msg): n is 1 when the reply is delivered
reply_text(msg, upd) == Ev("reply_text", msg, IF upd.reply_ok THEN 1 ELSE 0)

\* a private filter that tests `not self.config.get("private")`
_private_not(inner, cfg, upd) ==
    IF ~Truthy(ConfigGet(cfg, "private")) THEN inner
    ELSE IF upd.chat_type = Chat_PRIVATE THEN inner
    ELSE Returned(PyNone, <<reply_text("Only allowed to execute in a private chat", upd)>>)

\* _private: lines 472-483; what reply_text raises is dropped by `except: pass`
_private(inner, cfg, upd) ==
    IF EqFalse(ConfigGet(cfg, "private")) THEN inner
    ELSE IF upd.chat_type = Chat_PRIVATE THEN inner
    ELSE Returned(PyNone, <<reply_text("Only allowed to execute in a private chat", upd)>>)

\* _public: lines 491-501
_public(inner, cfg, upd) ==
    IF EqFalse(ConfigGet(cfg, "public")) THEN inner
    ELSE IF upd.chat_type # Chat_PRIVATE THEN inner
    ELSE Returned(PyNone, <<reply_text("Only allowed to execute in a public chat", upd)>>)

\* an owner filter that looks at the global admin list only
_owner_global_only(inner, cfg, gc, upd) ==
    IF EqFalse(ConfigGet(cfg, "owner")) THEN inner
    ELSE
    LET admins_global == ConfigGet2(gc, "admin", "ids") IN
    IF Truthy(admins_global) /\ IsList(admins_global) /\ InList(upd.user_id, admins_global)
    THEN inner
    ELSE Returned(PyNone, <<>>)

\* _owner: lines 515-529; falling off the end returns None
_owner(inner, cfg, gc, upd) ==
    IF EqFalse(ConfigGet(cfg, "owner")) THEN inner
    ELSE
    LET user_id == upd.user_id
        admins_global == ConfigGet2(gc, "admin", "ids")
        admins_plugin == ConfigGet(cfg, "admins")
    IN
    IF Truthy(admins_global) /\ IsList(admins_global) /\ InList(user_id, admins_global)
    THEN inner
    ELSE IF Truthy(admins_plugin) /\ IsList(admins_plugin) /\ InList(user_id, admins_plugin)
    THEN inner
    ELSE Returned(PyNone, <<>>)

\* the names of the plugins of the model, and the spellings a configuration uses
PluginNames == {"usage", "about", "feedback"}
DependencyNames == {"about", "About", "feedback"}

\* str.lower() on the names of the model
lower(s) ==
    IF s = "About" THEN "about"
    ELSE IF s = "data.DB" THEN "data.db"
    ELSE s

\* TGBFPlugin has the property `plugins` (lines 100-103) and no method
\* get_plugins: `self.get_plugins()` in line 542 raises AttributeError
has_get_plugins == FALSE

\* lines 544-548: the first dependency of the list that is not active, or ""
RECURSIVE first_missing(_, _)
first_missing(dependencies, plugin_names) ==
    IF dependencies = <<>> THEN ""
    ELSE IF lower(Head(dependencies)) \notin plugin_names THEN Head(dependencies)
    ELSE first_missing(Tail(dependencies), plugin_names)

\* _dependency: lines 538-552
_dependency(inner, cfg, active, upd) ==
    LET dependencies == ConfigGet(cfg, "dependencies") IN
    IF Truthy(dependencies) /\ IsList(dependencies)
    THEN IF ~has_get_plugins THEN Raised("AttributeError", <<>>)
         ELSE LET dependency == first_missing(dependencies.l, active) IN
              IF dependency = "" THEN inner
              ELSE IF upd.reply_ok
              THEN Returned(PyNone, <<reply_text(dependency, upd)>>)
              ELSE \* reply_text is not inside a try here
                   Raised("TelegramError", <<reply_text(dependency, upd)>>)
    ELSE [inner EXCEPT !.evs = <<Log("Dependencies not defined as list")>> \o @]

\* the lists of at most n of the names in S
RECURSIVE NameLists(_, _)
NameLists(S, n) ==
    IF n = 0 THEN {<<>>}
    ELSE LET shorter == NameLists(S, n - 1) IN
         shorter \cup { Append(l, x) : l \in { m \in shorter : Len(m) = n - 1 }, x \in S }

\* what admin.ids and admins can be set to: a list of ids, or a bare id
AdminValues == { PyList(l) : l \in ListsUpTo(MaxAdmins) } \cup { PyInt(i) : i \in Ids }

\* the plugin's configuration documents (<name>.json)
VisibilityConfigs ==
    Documents([private |-> {PyBool(TRUE), PyBool(FALSE)},
               public |-> {PyBool(TRUE), PyBool(FALSE)}])

OwnerConfigs ==
    Documents([owner |-> {PyBool(TRUE), PyBool(FALSE)}, admins |-> AdminValues])

DependencyConfigs ==
    Documents([dependencies |->
                  { PyList(l) : l \in NameLists(DependencyNames, MaxDependencies) }
                  \cup {PyStr("about")}])

\* a handler decorated with @private / @public
Private ==
    /\ call.op = "none"
    /\ \E upd \in Updates :
        call' = Finished("private", upd, _private(handler(upd), config, upd), FALSE)
    /\ UNCHANGED <<global_config, config, plugins, fs, bot, handlers, endpoints>>

Public ==
    /\ call.op = "none"
    /\ \E upd \in Updates :
        call' = Finished("public", upd, _public(handler(upd), config, upd), FALSE)
    /\ UNCHANGED <<global_config, config, plugins, fs, bot, handlers, endpoints>>

VisibilityInit ==
    /\ global_config = [admin |-> << >>, database |-> << >>]
    /\ config \in VisibilityConfigs
    /\ plugins = {name}
    /\ fs = [dirs |-> {}, tabs |-> << >>]
    /\ bot = NoBot
    /\ handlers = <<>>
    /\ endpoints = << >>
    /\ call = NoCall

VisibilityNext ==
    \/ Private
    \/ Public
    \/ Return

VisibilitySpec == VisibilityInit /\ [][VisibilityNext]_vars

\* a handler decorated with @owner
Owner ==
    /\ call.op = "none"
    /\ \E upd \in Updates :
        call' = Finished("owner", upd, _owner(handler(upd), config, global_config, upd),
                         FALSE)
    /\ UNCHANGED <<global_config, config, plugins, fs, bot, handlers, endpoints>>

OwnerInit ==
    /\ global_config \in { [admin |-> a, database |-> << >>] :
                             a \in Documents([ids |-> AdminValues]) }
    /\ config \in OwnerConfigs
    /\ plugins = {name}
    /\ fs = [dirs |-> {}, tabs |-> << >>]
    /\ bot = NoBot
    /\ handlers = <<>>
    /\ endpoints = << >>
    /\ call = NoCall

OwnerNext ==
    \/ Owner
    \/ Return

OwnerSpec == OwnerInit /\ [][OwnerNext]_vars

\* TelegramBot.enable_plugin(name): the plugin is set up and becomes active
bot_enable_plugin(active, plugin_name) == active \cup {lower(plugin_name)}

\* TelegramBot.disable_plugin(name): the plugin is torn down and is no longer active
bot_disable_plugin(active, plugin_name) == active \ {lower(plugin_name)}

\* enable_plugin: lines 238-240
enable_plugin(active, plugin_name) == bot_enable_plugin(active, plugin_name)

\* disable_plugin: lines 242-244
disable_plugin(active, plugin_name) == bot_disable_plugin(active, plugin_name)

\* what the bot answers: True for a plugin it has enabled or disabled; the
\* answer for a plugin that was in that state already is the bot's to give
Answers(before, after) ==
    IF before # after THEN {PyBool(TRUE)} ELSE {PyBool(TRUE), PyBool(FALSE)}

EnablePlugin ==
    /\ call.op = "none"
    /\ \E plugin_name \in PluginNames :
        LET active == enable_plugin(plugins, plugin_name) IN
        /\ plugins' = active
        /\ \E answer \in Answers(plugins, active) :
            call' = Finished("enable_plugin", plugin_name, Returned(answer, <<>>), FALSE)
    /\ UNCHANGED <<global_config, config, fs, bot, handlers, endpoints>>

DisablePlugin ==
    /\ call.op = "none"
    /\ \E plugin_name \in PluginNames :
        LET active == disable_plugin(plugins, plugin_name) IN
        /\ plugins' = active
        /\ \E answer \in Answers(plugins, active) :
            call' = Finished("disable_plugin", plugin_name, Returned(answer, <<>>), FALSE)
    /\ UNCHANGED <<global_config, config, fs, bot, handlers, endpoints>>

\* a handler decorated with @dependency
Dependency ==
    /\ call.op = "none"
    /\ \E upd \in Updates :
        call' = Finished("dependency", upd,
                         _dependency(handler(upd), config, plugins, upd), FALSE)
    /\ UNCHANGED <<global_config, config, plugins, fs, bot, handlers, endpoints>>

DependencyInit ==
    /\ global_config = [admin |-> << >>, database |-> << >>]
    /\ config \in DependencyConfigs
    /\ plugins \in { P \in SUBSET PluginNames : name \in P }
    /\ fs = [dirs |-> {}, tabs |-> << >>]
    /\ bot = NoBot
    /\ handlers = <<>>
    /\ endpoints = << >>
    /\ call = NoCall

DependencyNext ==
    \/ Dependency
    \/ EnablePlugin
    \/ DisablePlugin
    \/ Return

DependencySpec == DependencyInit /\ [][DependencyNext]_vars

-----------------------------------------------------------------------------
(* The claims about the decorators.                                        *)

\* the handler body ran n times in the last call, on the update of the call
HandlerRan(n) ==
    /\ Count(call.evs, "handler") = n
    /\ \A i \in 1..Len(call.evs) :
          call.evs[i].k = "handler"
          => call.evs[i].s = call.args.chat_type /\ call.evs[i].n = call.args.user_id

Replies == Only(call.evs, "reply_text")

\* C8: a handler behind @private runs exactly when the plugin's `private` is
\* false or the chat is a direct one (an absent `private` restricts, so any
\* user is admitted in a direct chat); otherwise the body does not run and
\* one denial notice is sent as a reply.
C8_PrivateAdmitsDirectChats ==
    call.op = "private"
    => /\ call.outcome = "returned"
       /\ IF ConfigGet(config, "private") = PyBool(FALSE)
             \/ call.args.chat_type = Chat_PRIVATE
          THEN HandlerRan(1) /\ Replies = <<>>
          ELSE /\ HandlerRan(0)
               /\ Len(Replies) = 1
               /\ Replies[1].s = "Only allowed to execute in a private chat"

C8_Witness ==
    /\ call.op = "private"
    /\ "private" \notin DOMAIN config
    /\ call.args.chat_type = "group"
    /\ HandlerRan(0)
    /\ Len(Replies) = 1

\* whether v is a list that holds x
Holds(v, x) == IsList(v) /\ InList(x, v)

\* C9: a handler behind @owner runs exactly when the plugin's `owner` is
\* false, or the user's id is in the global admin.ids list, or it is in the
\* plugin's admins list; a user in neither list (absent or not a list
\* included) gets no handler run, no message and no exception.
C9_OwnerAdmitsAdmins ==
    call.op = "owner"
    => /\ call.outcome = "returned"
       /\ IF \/ ConfigGet(config, "owner") = PyBool(FALSE)
             \/ Holds(ConfigGet2(global_config, "admin", "ids"), call.args.user_id)
             \/ Holds(ConfigGet(config, "admins"), call.args.user_id)
          THEN HandlerRan(1)
          ELSE call.evs = <<>>

C9_Witness ==
    /\ call.op = "owner"
    /\ ConfigGet(config, "owner") = PyBool(TRUE)
    /\ ConfigGet(config, "admins") = PyInt(call.args.user_id)
    /\ IsList(ConfigGet2(global_config, "admin", "ids"))
    /\ ~Holds(ConfigGet2(global_config, "admin", "ids"), call.args.user_id)
    /\ call.outcome = "returned"
    /\ call.evs = <<>>

\* the dependencies of the plugin's list that are not active
Missing ==
    LET d == ConfigGet(config, "dependencies") IN
    IF IsList(d) THEN { x \in Range(d.l) : lower(x) \notin plugins } ELSE {}

\* C10: behind @dependency, a list with a name that is not an active plugin
\* gives exactly one denial reply naming a missing dependency and no handler
\* run; a list whose names are all active lets the handler run; a setting
\* that is not a list is logged as an error and the handler runs (stated for
\* the updates whose replies can be delivered).
C10_DependencyFilter ==
    (call.op = "dependency" /\ call.args.reply_ok)
    => LET d == ConfigGet(config, "dependencies") IN
       IF IsList(d)
       THEN IF Missing # {}
            THEN /\ HandlerRan(0)
                 /\ Len(Replies) = 1
                 /\ Replies[1].s \in Missing
            ELSE HandlerRan(1)
       ELSE HandlerRan(1) /\ Count(call.evs, "log") = 1

-----------------------------------------------------------------------------
(* Stacked decorators: plugin.py 468-553.  Each decorator returns a        *)
(* function that wraps the one it is given, so a handler written under     *)
(* several decorators is a nest of wrappers, the first decorator written   *)
(* being the outermost.                                                    *)

MaxDecorators == 2

Decorators == {"private", "public", "owner", "dependency"}

Distinct(l) == \A i, j \in 1..Len(l) : l[i] = l[j] => i = j

\* the stacks of at most n different decorators, outermost first
Stacks(n) == { l \in NameLists(Decorators, n) : Distinct(l) }

\* the wrapper one decorator makes around the call `inner`
decorate(d, inner, cfg, gc, active, upd) ==
    CASE d = "private" -> _private(inner, cfg, upd)
      [] d = "public" -> _public(inner, cfg, upd)
      [] d = "owner" -> _owner(inner, cfg, gc, upd)
      [] d = "dependency" -> _dependency(inner, cfg, active, upd)

\* a stack applied innermost first: the wrappers run in the reverse order
RECURSIVE decorated_innermost_first(_, _, _, _, _)
decorated_innermost_first(stack, cfg, gc, active, upd) ==
    IF stack = <<>> THEN handler(upd)
    ELSE decorate(stack[Len(stack)],
                  decorated_innermost_first(SubSeq(stack, 1, Len(stack) - 1),
                                            cfg, gc, active, upd),
                  cfg, gc, active, upd)

\* the call of a handler written under the decorators of `stack`
RECURSIVE decorated(_, _, _, _, _)
decorated(stack, cfg, gc, active, upd) ==
    IF stack = <<>> THEN handler(upd)
    ELSE decorate(Head(stack), decorated(Tail(stack), cfg, gc, active, upd),
                  cfg, gc, active, upd)

\* the plugin's configuration documents for a decorated handler
DecoratedConfigs ==
    { a @@ d : a \in Documents([private |-> {PyBool(FALSE)},
                                public |-> {PyBool(FALSE)},
                                owner |-> {PyBool(FALSE)},
                                admins |-> {PyList(<<MaxId>>)}]),
               d \in Documents([dependencies |-> {PyList(<<"about">>), PyStr("about")}]) }

Decorated ==
    /\ call.op = "none"
    /\ \E upd \in Updates, stack \in Stacks(MaxDecorators) :
        call' = Finished("decorated",
                         [chat_type |-> upd.chat_type, user_id |-> upd.user_id,
                          reply_ok |-> upd.reply_ok, stack |-> stack],
                         decorated(stack, config, global_config, plugins, upd), FALSE)
    /\ UNCHANGED <<global_config, config, plugins, fs, bot, handlers, endpoints>>

DecoratedInit ==
    /\ global_config \in { [admin |-> a, database |-> << >>] :
                             a \in Documents([ids |-> {PyList(<<1>>)}]) }
    /\ config \in DecoratedConfigs
    /\ plugins \in { {name}, {name, "about"} }
    /\ fs = [dirs |-> {}, tabs |-> << >>]
    /\ bot = NoBot
    /\ handlers = <<>>
    /\ endpoints = << >>
    /\ call = NoCall

DecoratedNext ==
    \/ Decorated
    \/ EnablePlugin
    \/ DisablePlugin
    \/ Return

DecoratedSpec == DecoratedInit /\ [][DecoratedNext]_vars

-----------------------------------------------------------------------------
(* The claims about stacked decorators.                                    *)

\* whether decorator d, were it evaluated on the update of the call, would
\* not pass the update on: @private and @public reply, @owner is silent, and
\* @dependency with a non-empty list raises AttributeError (see C10)
Stops(d) ==
    CASE d = "private" ->
           ConfigGet(config, "private") # PyBool(FALSE)
           /\ call.args.chat_type # Chat_PRIVATE
      [] d = "public" ->
           ConfigGet(config, "public") # PyBool(FALSE)
           /\ call.args.chat_type = Chat_PRIVATE
      [] d = "owner" ->
           /\ ConfigGet(config, "owner") # PyBool(FALSE)
           /\ ~Holds(ConfigGet2(global_config, "admin", "ids"), call.args.user_id)
           /\ ~Holds(ConfigGet(config, "admins"), call.args.user_id)
      [] d = "dependency" ->
           LET l == ConfigGet(config, "dependencies") IN IsList(l) /\ l.l # <<>>

\* what the call looks like when decorator d is the one that stopped it
StoppedBy(d) ==
    /\ HandlerRan(0)
    /\ CASE d = "private" ->
              /\ call.outcome = "returned"
              /\ Len(Replies) = 1
              /\ Replies[1].s = "Only allowed to execute in a private chat"
         [] d = "public" ->
              /\ call.outcome = "returned"
              /\ Len(Replies) = 1
              /\ Replies[1].s = "Only allowed to execute in a public chat"
         [] d = "owner" -> call.outcome = "returned" /\ Replies = <<>>
         [] d = "dependency" -> call.exc = "AttributeError" /\ Replies = <<>>

PassedOn == call.outcome = "returned" /\ HandlerRan(1) /\ Replies = <<>>

\* visibility, then ownership, then dependency
Rank(d) ==
    CASE d \in {"private", "public"} -> 1
      [] d = "owner" -> 2
      [] d = "dependency" -> 3

Stoppers == { i \in 1..Len(call.args.stack) : Stops(call.args.stack[i]) }

\* C11 as stated: whatever order the decorators were written in, the call
\* is decided by the stopping filter that comes first in the fixed order
\* visibility, ownership, dependency, and no later filter nor the handler
\* body is evaluated.
C11_FixedOrder ==
    call.op = "decorated"
    => IF Stoppers = {} THEN PassedOn
       ELSE \E i \in Stoppers :
               /\ \A j \in Stoppers : Rank(call.args.stack[i]) <= Rank(call.args.stack[j])
               /\ StoppedBy(call.args.stack[i])

\* C11: the filters of a handler are evaluated in the order they wrap it,
\* the first decorator written (the outermost) first; the first filter that
\* does not pass the update on decides the call, and neither a later filter
\* nor the handler body is evaluated.
C11_WrappingOrder ==
    call.op = "decorated"
    => IF Stoppers = {} THEN PassedOn
       ELSE \E i \in Stoppers :
               /\ \A j \in Stoppers : i <= j
               /\ StoppedBy(call.args.stack[i])

C11_Witness ==
    /\ call.op = "decorated"
    /\ call.args.stack = <<"owner", "private">>
    /\ Stoppers = {1, 2}
    /\ call.outcome = "returned"
    /\ call.evs = <<>>

\* the dependencies of the plugin's list that are not active make
\* @dependency deny; the other filters deny as they stop
Denies(d) == IF d = "dependency" THEN Missing # {} ELSE Stops(d)

DenialTexts(d) ==
    CASE d = "private" -> {"Only allowed to execute in a private chat"}
      [] d = "public" -> {"Only allowed to execute in a public chat"}
      [] d = "owner" -> {}
      [] d = "dependency" -> Missing

Deniers == { i \in 1..Len(call.args.stack) : Denies(call.args.stack[i]) }

\* C12: stacked filters are evaluated outermost first: when a filter denies,
\* the handler body does not run and the only reply that can have been sent
\* is the denial of the outermost denying filter; when every filter of the
\* stack admits, the handler body runs exactly once, on the update that was
\* passed in.
C12_OutermostFirst ==
    call.op = "decorated"
    => IF Deniers = {}
       THEN call.outcome = "returned" /\ HandlerRan(1)
       ELSE \E i \in Deniers :
               /\ \A j \in Deniers : i <= j
               /\ HandlerRan(0)
               /\ \A k \in 1..Len(Replies) :
                     Replies[k].s \in DenialTexts(call.args.stack[i])

-----------------------------------------------------------------------------
(* The job scheduler: plugin.py 194-236.  The plugins of one bot share its *)
(* job queue.  A job is the n-th one put on the queue (id), has a name,    *)
(* belongs to the plugin whose callback it runs and repeats or not;        *)
(* `given` keeps the name argument of the call that scheduled it.          *)

MaxJobs == 2

\* the name a caller passes: none, the empty string, or a name of its own
JobNames == {PyNone, PyStr(""), PyStr("tick")}

\* JobQueue.run_once / JobQueue.run_repeating: a new job on the queue
job_queue_put(job_queue, job) == Append(job_queue, job)

\* JobQueue.jobs(): every job on the queue
job_queue_jobs(job_queue) == job_queue

\* JobQueue.get_jobs_by_name(name): the jobs on the queue that have the name
get_jobs_by_name(job_queue, job_name) ==
    SelectSeq(job_queue, LAMBDA job : job.name = job_name)

\* a scheduler that hands the caller's name to the queue as it is: the
\* queue names a job without a name after its callback
name_or_callback(self_name, job_name) ==
    IF Truthy(job_name) THEN job_name.s ELSE "callback"

\* `name if name else self.name`: lines 219 and 236
name_or_self(self_name, job_name) ==
    IF Truthy(job_name) THEN job_name.s ELSE self_name

\* run_repeating: lines 204-219; the job made and the queue after the call
run_repeating(self_name, job_queue, job_name) ==
    LET job == [id |-> Len(job_queue) + 1,
                name |-> name_or_self(self_name, job_name),
                callback |-> self_name,
                repeat |-> TRUE,
                given |-> job_name]
    IN [job |-> job, job_queue |-> job_queue_put(job_queue, job)]

\* run_once: lines 221-236
run_once(self_name, job_queue, job_name) ==
    LET job == [id |-> Len(job_queue) + 1,
                name |-> name_or_self(self_name, job_name),
                callback |-> self_name,
                repeat |-> FALSE,
                given |-> job_name]
    IN [job |-> job, job_queue |-> job_queue_put(job_queue, job)]

\* get_jobs: lines 194-202
get_jobs(job_queue, job_name) ==
    IF Truthy(job_name)
    THEN get_jobs_by_name(job_queue, job_name.s)
    ELSE job_queue_jobs(job_queue)

\* the names get_jobs is asked for
QueryNames == JobNames \cup { PyStr(p) : p \in PluginNames }

\* the caller is any plugin that has been constructed, active or not: the
\* scheduler does not look at the bot's list of active plugins
RunRepeating ==
    /\ call.op = "none"
    /\ Len(bot.job_queue) < MaxJobs
    /\ \E self_name \in PluginNames, job_name \in JobNames :
        LET r == run_repeating(self_name, bot.job_queue, job_name) IN
        /\ bot' = [bot EXCEPT !.job_queue = r.job_queue]
        /\ call' = Finished("run_repeating", [plugin |-> self_name, name |-> job_name],
                            Returned(r.job, <<>>), FALSE)
    /\ UNCHANGED <<global_config, config, plugins, fs, handlers, endpoints>>

RunOnce ==
    /\ call.op = "none"
    /\ Len(bot.job_queue) < MaxJobs
    /\ \E self_name \in PluginNames, job_name \in JobNames :
        LET r == run_once(self_name, bot.job_queue, job_name) IN
        /\ bot' = [bot EXCEPT !.job_queue = r.job_queue]
        /\ call' = Finished("run_once", [plugin |-> self_name, name |-> job_name],
                            Returned(r.job, <<>>), FALSE)
    /\ UNCHANGED <<global_config, config, plugins, fs, handlers, endpoints>>

GetJobs ==
    /\ call.op = "none"
    /\ \E self_name \in PluginNames, job_name \in QueryNames :
        call' = Finished("get_jobs", [plugin |-> self_name, name |-> job_name],
                         Returned(get_jobs(bot.job_queue, job_name), <<>>), FALSE)
    /\ UNCHANGED <<global_config, config, plugins, fs, bot, handlers, endpoints>>

JobsInit ==
    /\ global_config = [admin |-> << >>, database |-> << >>]
    /\ config = << >>
    /\ plugins = {name, "about"}
    /\ fs = [dirs |-> {}, tabs |-> << >>]
    /\ bot = NoBot
    /\ handlers = <<>>
    /\ endpoints = << >>
    /\ call = NoCall

JobsNext ==
    \/ RunRepeating
    \/ EnablePlugin
    \/ DisablePlugin
    \/ RunOnce
    \/ GetJobs
    \/ Return

JobsSpec == JobsInit /\ [][JobsNext]_vars

-----------------------------------------------------------------------------
(* The claim about the job scheduler.                                      *)

\* the jobs on the queue that plugin p scheduled without a name
Unnamed(p) ==
    { i \in 1..Len(bot.job_queue) :
        bot.job_queue[i].callback = p /\ ~Truthy(bot.job_queue[i].given) }

\* the ids of the jobs the last call returned
ReturnedIds == { call.value[k].id : k \in 1..Len(call.value) }

\* C13: a job scheduled by run_once or run_repeating without a name is
\* registered under the name of the plugin that scheduled it, and names need
\* not be unique: get_jobs(<plugin name>) returns every job that plugin has
\* scheduled without a name, each once, and get_jobs() without a name returns
\* all the jobs of all the plugins.
C13_JobsUnderPluginName ==
    call.op = "get_jobs"
    => /\ call.outcome = "returned"
       /\ Cardinality(ReturnedIds) = Len(call.value)
       /\ ~Truthy(call.args.name) => call.value = bot.job_queue
       /\ \A p \in PluginNames :
             call.args.name = PyStr(p)
             => \A i \in Unnamed(p) : bot.job_queue[i].id \in ReturnedIds

C13_Witness ==
    /\ call.op = "get_jobs"
    /\ call.args.name = PyStr(name)
    /\ Cardinality(Unnamed(name)) = 2
    /\ Len(call.value) = 2
    /\ \E i, j \in Unnamed(name) : bot.job_queue[i].repeat /\ ~bot.job_queue[j].repeat

-----------------------------------------------------------------------------
(* get_usage: plugin.py 150-167, with the property `handle` (84-88).  A    *)
(* text is the sequence of its pieces, a placeholder being one piece.      *)

PyText(pieces) == [t |-> "text", pieces |-> pieces]

\* str(value)
str(value) == IF value.t = "str" THEN value.s ELSE ToString(value.i)

\* text.replace(old, new)
replace_all(pieces, old, new) ==
    [i \in 1..Len(pieces) |-> IF pieces[i] = old THEN new ELSE pieces[i]]

\* lines 161-163: one replacement after the other, in the order of the dict
RECURSIVE replace_items(_, _)
replace_items(pieces, items) ==
    IF items = <<>> THEN pieces
    ELSE replace_items(replace_all(pieces, Head(items)[1], str(Head(items)[2])),
                       Tail(items))

\* the property `handle`: lines 84-88
handle(cfg) ==
    LET configured == ConfigGet(cfg, "handle") IN
    IF Truthy(configured) THEN PyStr(lower(configured.s)) ELSE PyStr(name)

\* value(): a str is not callable
call_value(value) ==
    IF value.t = "function" THEN Returned(value.result, <<>>)
    ELSE Raised("TypeError", <<>>)

\* get_usage: lines 150-167; `content` is what <name>.md holds
get_usage(gc, cfg, content, replace, env) ==
    LET read == _get_resource_content(gc, name \o ".md", env) IN
    IF read.outcome = "raised" THEN read
    ELSE IF read.value = PyNone \/ content = <<>> THEN Returned(PyNone, read.evs)
    ELSE LET h == call_value(handle(cfg)) IN
         IF h.outcome = "raised" THEN Raised(h.exc, read.evs)
         ELSE LET usage == replace_all(content, "{{handle}}", h.value.s) IN
              Returned(PyText(replace_items(usage, replace)), read.evs)

\* what usage.md holds, and the replacements a caller asks for
UsageTexts == { <<>>, <<"Send /", "{{handle}}", " and ", "{{n}}", " words">> }
Replacements == { <<>>, << <<"{{n}}", PyInt(MaxId)>> >> }

UsageConfigs == Documents([handle |-> {PyStr("About"), PyStr("")}])

GetUsage ==
    /\ call.op = "none"
    /\ \E content \in UsageTexts, replace \in Replacements,
          env \in Envs({"open"}, global_config) :
        call' = Finished("get_usage",
                         [content |-> content, replace |-> replace, env |-> env],
                         get_usage(global_config, config, content, replace, env), FALSE)
    /\ UNCHANGED <<global_config, config, plugins, fs, bot, handlers, endpoints>>

UsageInit ==
    /\ global_config \in GlobalConfigs({<<>>, <<1>>})
    /\ config \in UsageConfigs
    /\ plugins = {name}
    /\ fs = [dirs |-> {}, tabs |-> << >>]
    /\ bot = NoBot
    /\ handlers = <<>>
    /\ endpoints = << >>
    /\ call = NoCall

UsageNext ==
    \/ GetUsage
    \/ Return

UsageSpec == UsageInit /\ [][UsageNext]_vars

-----------------------------------------------------------------------------
(* The claim about get_usage.                                              *)

\* the plugin's handle: the configured one in lower case, or the plugin name
ExpectedHandle ==
    IF "handle" \in DOMAIN config /\ config["handle"].s # ""
    THEN lower(config["handle"].s)
    ELSE name

\* the piece a piece of the usage text must have become
ExpectedPiece(piece) ==
    IF piece = "{{handle}}" THEN ExpectedHandle
    ELSE IF \E k \in 1..Len(call.args.replace) : call.args.replace[k][1] = piece
    THEN str((CHOOSE pair \in Range(call.args.replace) : pair[1] = piece)[2])
    ELSE piece

\* C14: get_usage never raises; when the usage resource can be read it
\* returns the text with every {{handle}} replaced by the plugin's handle and
\* every placeholder of the caller by its value as a string (no value for an
\* empty text); when the resource cannot be read it logs, notifies and
\* returns no value.
C14_GetUsageSubstitutes ==
    call.op = "get_usage"
    => /\ call.outcome = "returned"
       /\ IF "open" \in call.args.env.fail
          THEN /\ call.value = PyNone
               /\ Count(call.evs, "log") >= 1
               /\ Count(call.evs, "notify") = 1
          ELSE IF call.args.content = <<>> THEN call.value = PyNone
          ELSE /\ call.value.t = "text"
               /\ call.value.pieces =
                     [i \in 1..Len(call.args.content) |-> ExpectedPiece(call.args.content[i])]

-----------------------------------------------------------------------------
(* Registration: plugin.py 131-148.  The dispatcher is the list of the     *)
(* handlers it has accepted, each with its group; the web application is   *)
(* the list of its URL rules.  A path is the sequence of its characters.   *)

MaxHandlers == 2
MaxRules == 2

\* the objects given to add_handler as handler and as group
HandlerObjects == { [type |-> "MessageHandler", is_handler |-> TRUE],
                    [type |-> "CommandHandler", is_handler |-> TRUE],
                    [type |-> "str", is_handler |-> FALSE] }
Groups == { PyInt(0), PyInt(1), PyStr("first") }

\* the names and the endpoint actions given to add_endpoint
EndpointNames == { <<>>, <<"/">>, <<"h">>, <<"/", "h">> }
EndpointActions == { "action_a", "action_b" }

\* Dispatcher.add_handler: TypeError for what is no Handler or no int group
dispatcher_add_handler(dispatcher, new_handler, group) ==
    IF ~new_handler.is_handler \/ group.t # "int"
    THEN [exc |-> "TypeError", dispatcher |-> dispatcher]
    ELSE [exc |-> "", dispatcher |-> Append(dispatcher, [handler |-> new_handler, group |-> group.i])]

\* Flask.add_url_rule(rule, endpoint, view_func): a rule needs a leading
\* slash, and an endpoint keeps the one view function it was given first
add_url_rule(url_rules, rule, endpoint, view_func) ==
    IF rule = <<>> \/ rule[1] # "/"
    THEN [exc |-> "ValueError", url_rules |-> url_rules]
    ELSE IF \E i \in 1..Len(url_rules) :
               url_rules[i].endpoint = endpoint /\ url_rules[i].view_func # view_func
    THEN [exc |-> "AssertionError", url_rules |-> url_rules]
    ELSE [exc |-> "", url_rules |-> Append(url_rules, [rule |-> rule, endpoint |-> endpoint,
                                                       view_func |-> view_func])]

\* name.startswith("/")
startswith_slash(chars) == chars # <<>> /\ chars[1] = "/"

\* add_handler: lines 131-138; the call, the dispatcher and self.handlers after it
add_handler(dispatcher, hs, new_handler, group) ==
    LET forwarded == dispatcher_add_handler(dispatcher, new_handler, group) IN
    IF forwarded.exc # ""
    THEN [r |-> Raised(forwarded.exc, <<>>), dispatcher |-> forwarded.dispatcher,
          handlers |-> hs]
    ELSE [r |-> Returned(PyNone, <<Ev("info", new_handler.type, 0)>>),
          dispatcher |-> forwarded.dispatcher,
          handlers |-> Append(hs, new_handler)]

\* an add_endpoint that records the endpoint before it forwards it
add_endpoint_record_first(url_rules, eps, endpoint_name, endpoint) ==
    LET path == IF startswith_slash(endpoint_name) THEN endpoint_name
                ELSE <<"/">> \o endpoint_name
        recorded == [p \in DOMAIN eps \cup {path} |-> IF p = path THEN endpoint ELSE eps[p]]
        forwarded == add_url_rule(url_rules, path, path, endpoint)
    IN IF forwarded.exc # ""
       THEN [r |-> Raised(forwarded.exc, <<>>), url_rules |-> forwarded.url_rules,
             endpoints |-> recorded]
       ELSE [r |-> Returned(PyNone, <<Ev("info", "Endpoint", 0)>>),
             url_rules |-> forwarded.url_rules, endpoints |-> recorded]

\* add_endpoint: lines 140-148
add_endpoint(url_rules, eps, endpoint_name, endpoint) ==
    LET path == IF startswith_slash(endpoint_name) THEN endpoint_name
                ELSE <<"/">> \o endpoint_name
        forwarded == add_url_rule(url_rules, path, path, endpoint)
    IN IF forwarded.exc # ""
       THEN [r |-> Raised(forwarded.exc, <<>>), url_rules |-> forwarded.url_rules,
             endpoints |-> eps]
       ELSE [r |-> Returned(PyNone, <<Ev("info", "Endpoint", 0)>>),
             url_rules |-> forwarded.url_rules,
             endpoints |-> [p \in DOMAIN eps \cup {path} |->
                              IF p = path THEN endpoint ELSE eps[p]]]

AddHandler ==
    /\ call.op = "none"
    /\ Len(bot.dispatcher) < MaxHandlers
    /\ \E new_handler \in HandlerObjects, group \in Groups :
        LET a == add_handler(bot.dispatcher, handlers, new_handler, group) IN
        /\ bot' = [bot EXCEPT !.dispatcher = a.dispatcher]
        /\ handlers' = a.handlers
        /\ call' = Finished("add_handler", [handler |-> new_handler, group |-> group], a.r,
                            a.handlers # handlers)
    /\ UNCHANGED <<global_config, config, plugins, fs, endpoints>>

AddEndpoint ==
    /\ call.op = "none"
    /\ Len(bot.url_rules) < MaxRules
    /\ \E endpoint_name \in EndpointNames, endpoint \in EndpointActions :
        LET a == add_endpoint(bot.url_rules, endpoints, endpoint_name, endpoint) IN
        /\ bot' = [bot EXCEPT !.url_rules = a.url_rules]
        /\ endpoints' = a.endpoints
        /\ call' = Finished("add_endpoint", [name |-> endpoint_name, endpoint |-> endpoint],
                            a.r, a.endpoints # endpoints)
    /\ UNCHANGED <<global_config, config, plugins, fs, handlers>>

RegistrationInit ==
    /\ global_config = [admin |-> << >>, database |-> << >>]
    /\ config = << >>
    /\ plugins = {name}
    /\ fs = [dirs |-> {}, tabs |-> << >>]
    /\ bot = NoBot
    /\ handlers = <<>>
    /\ endpoints = << >>
    /\ call = NoCall

RegistrationNext ==
    \/ AddHandler
    \/ AddEndpoint
    \/ Return

RegistrationSpec == RegistrationInit /\ [][RegistrationNext]_vars

-----------------------------------------------------------------------------
(* The claim about registration.                                           *)

RegistrationOps == {"add_handler", "add_endpoint"}

\* the handlers the dispatcher accepted, in the order of the calls
Forwarded == [i \in 1..Len(bot.dispatcher) |-> bot.dispatcher[i].handler]

\* the paths the web application has a rule for
ForwardedPaths == { bot.url_rules[i].rule : i \in 1..Len(bot.url_rules) }

\* C15: after any sequence of add_handler and add_endpoint calls the
\* plugin's handler list is the sequence of the handlers the dispatcher
\* accepted, in call order, and the keys of its endpoint map are the paths
\* the web application accepted, each beginning with '/' (a name given
\* without the '/' is kept under the key with it); a call whose forwarding
\* fails raises and leaves the list and the map as they were.
C15_TrackedIsForwarded ==
    /\ handlers = Forwarded
    /\ DOMAIN endpoints = ForwardedPaths
    /\ \A path \in DOMAIN endpoints : path # <<>> /\ path[1] = "/"
    /\ (call.op \in RegistrationOps /\ call.outcome = "raised") => ~call.wrote
    /\ (call.op = "add_endpoint" /\ call.outcome = "returned")
       => LET given == call.args.name
              key == IF given # <<>> /\ given[1] = "/" THEN given ELSE <<"/">> \o given
          IN key \in DOMAIN endpoints /\ endpoints[key] = call.args.endpoint

C15_Witness ==
    /\ call.op = "add_endpoint"
    /\ call.outcome = "raised"
    /\ call.args.name = <<"h">>
    /\ DOMAIN endpoints = { <<"/", "h">> }
    /\ endpoints[<<"/", "h">>] # call.args.endpoint
    /\ Len(handlers) = 1

-----------------------------------------------------------------------------
(* The database a call is about: plugin.py 286-300 (execute_sql) and       *)
(* 361-373 (table_exists), for the plugin and the db_name the caller gives *)
(* ("" when not given).  Paths are case sensitive.                         *)

\* the plugin and db_name arguments of the callers
PluginArguments == {"", "About"}
DbNames == {"", "data", "data.DB"}

\* s.endswith(".db"), for the names of the model
endswith_db(s) == s \in { stem \o ".db" : stem \in {"data", "usage", "about", "About"} }

\* lines 286-293 and 361-368: the file name of the database
db_file(plugin, db_name) ==
    IF db_name # ""
    THEN IF ~endswith_db(lower(db_name)) THEN db_name \o ".db" ELSE db_name
    ELSE IF plugin # "" THEN plugin \o ".db"
    ELSE name \o ".db"

\* lines 295-300: db_path of execute_sql
execute_sql_path(plugin, db_name) ==
    IF plugin # ""
    THEN get_dat_path(lower(plugin)) \o <<db_file(plugin, db_name)>>
    ELSE get_dat_path("") \o <<db_file(plugin, db_name)>>

\* lines 370-373: db_path of table_exists
table_exists_path(plugin, db_name) ==
    IF plugin # ""
    THEN get_dat_path(plugin) \o <<db_file(plugin, db_name)>>
    ELSE get_dat_path("") \o <<db_file(plugin, db_name)>>

\* a call that meets no failure of its environment
NoFailure == [fail |-> {}, bad |-> {}]

\* execute_sql(sql, plugin=plugin, db_name=db_name)
ExecuteSqlOf ==
    /\ call.op = "none"
    /\ \E sql \in Statements, plugin \in PluginArguments, db_name \in DbNames :
        LET db_path == execute_sql_path(plugin, db_name)
            x == _get_database_content(global_config, fs, db_path, sql, NoFailure)
        IN /\ fs' = x.fs
           /\ call' = Finished("execute_sql_of",
                               [sql |-> sql, plugin |-> plugin, db_name |-> db_name,
                                db_path |-> db_path],
                               x.r, x.fs # fs)
    /\ UNCHANGED <<global_config, config, plugins, bot, handlers, endpoints>>

\* table_exists(table_name, plugin=plugin, db_name=db_name)
TableExistsOf ==
    /\ call.op = "none"
    /\ \E table_name \in TableNames, plugin \in PluginArguments, db_name \in DbNames :
        LET db_path == table_exists_path(plugin, db_name) IN
        call' = Finished("table_exists_of",
                         [table_name |-> table_name, plugin |-> plugin,
                          db_name |-> db_name, db_path |-> db_path],
                         _database_table_exists(global_config, fs, db_path, table_name,
                                                NoFailure),
                         FALSE)
    /\ UNCHANGED <<global_config, config, plugins, fs, bot, handlers, endpoints>>

TargetInit ==
    /\ global_config \in { [admin |-> << >>, database |-> d] :
                             d \in Documents([use_db |-> {PyBool(TRUE)}]) }
    /\ config = << >>
    /\ plugins = {name}
    /\ fs = [dirs |-> {}, tabs |-> << >>]
    /\ bot = NoBot
    /\ handlers = <<>>
    /\ endpoints = << >>
    /\ call = NoCall

TargetNext ==
    \/ ExecuteSqlOf
    \/ TableExistsOf
    \/ Return

TargetSpec == TargetInit /\ [][TargetNext]_vars

-----------------------------------------------------------------------------
(* The claim about the database a call is about.                           *)

\* table t is in the database that execute_sql opens for (plugin, db_name):
\* only a successful execute_sql of a create statement puts it there
CreatedBy(t, plugin, db_name) ==
    LET db_path == execute_sql_path(plugin, db_name) IN
    db_path \in DOMAIN fs.tabs /\ t \in fs.tabs[db_path]

\* C16: for every plugin argument (absent, or a name in any letter case) and
\* every db_name argument (absent, with or without the .db suffix in any
\* letter case), the path table_exists probes is the path execute_sql opens,
\* and table_exists is true for a table that a successful execute_sql has
\* created with the same plugin and db_name.
C16_SameStorageTarget ==
    /\ call.op = "execute_sql_of"
       => call.args.db_path = table_exists_path(call.args.plugin, call.args.db_name)
    /\ call.op = "table_exists_of"
       => /\ call.args.db_path = execute_sql_path(call.args.plugin, call.args.db_name)
          /\ CreatedBy(call.args.table_name, call.args.plugin, call.args.db_name)
             => call.outcome = "returned" /\ call.value = PyBool(TRUE)

=============================================================================
